---------------------------- MODULE Spec2Model ----------------------------
(***************************************************************************)
(* Model of sherpa's ResultsTable (src/sherpa/resultstable.py): the pandas *)
(* data frame self.df, the file results.csv that _save rewrites, the       *)
(* dtypes registry, and the operations on_start, on_finish, get_k_lowest,  *)
(* get_best, get_pending, get_indices, update_hist2loss and load.          *)
(*                                                                         *)
(* A data frame is a sequence of rows.  A row carries its index label      *)
(* (df.index), the five fixed columns ID, Loss, Epochs, History, Pending   *)
(* and, in hp, the hyperparameter columns the row was created with.        *)
(***************************************************************************)
EXTENDS Integers, Sequences, FiniteSets, TLC

VARIABLES df, csv, dtypes, loss_summary, ret, issued, finished,
          hist2loss, peer, hfiles

\* hist2loss: the attribute update_hist2loss sets.  peer: a second
\* ResultsTable object on the same csv path.  hfiles: the history files the
\* constructor was given to load, and how many of them it has loaded.
aux == <<hist2loss, peer, hfiles>>

vars == <<df, csv, dtypes, loss_summary, ret, issued, finished, aux>>

(* ------------------------------ bounds -------------------------------- *)

\* Most rows the table may hold (on_start is not offered beyond it).
MaxTrials == 2

(* ------------------------- program constants -------------------------- *)

\* np.inf, the default loss of _set and the loss of an empty history.
\* Every loss reading of the model is below it.
Inf == 1000

\* None, the default historyfile of _set.
None == "None"

\* The NaN pandas puts in the cells of a column a row has no value for.  No
\* hyperparameter value of the model equals it.
NaN == -1

\* An attribute that was never assigned.
Unset == "Unset"

\* self.keys: the fixed columns of the table.
keys == {"ID", "Loss", "Epochs", "History", "Pending"}

(* --------------------------- the environment -------------------------- *)

\* The history files the training loop may leave behind.  ok: open() and
\* pkl.load succeed; has_loss: the pickled dict has the key self.loss;
\* loss: history[self.loss].
HistoryFiles == {"hGone", "hNoKey", "hEmpty", "hA", "hB"}

ReadHistory(historyfile) ==
    CASE historyfile = "hGone"  -> [ok |-> FALSE, has_loss |-> FALSE, loss |-> <<>>]
      [] historyfile = "hNoKey" -> [ok |-> TRUE,  has_loss |-> FALSE, loss |-> <<>>]
      [] historyfile = "hEmpty" -> [ok |-> TRUE,  has_loss |-> TRUE,  loss |-> <<>>]
      [] historyfile = "hA"     -> [ok |-> TRUE,  has_loss |-> TRUE,  loss |-> <<2, 1>>]
      [] historyfile = "hB"     -> [ok |-> TRUE,  has_loss |-> TRUE,  loss |-> <<1, 2>>]
      [] historyfile = "hC"     -> [ok |-> TRUE,  has_loss |-> TRUE,  loss |-> <<3>>]

\* The well-formed artifacts a directory given as load_results may hold
\* (files that open, with the keys 'hp' and self.loss), and history['hp'] of
\* each: hC is the artifact of a trial that had no hyperparameters.
Artifacts == {"hEmpty", "hA", "hB", "hC"}

HistoryHp(historyfile) ==
    CASE historyfile = "hEmpty" -> [Loss |-> 1]
      [] historyfile = "hA"     -> [lr |-> 1]
      [] historyfile = "hB"     -> [lr |-> 1, units |-> 2]
      [] historyfile = "hC"     -> [k \in {} |-> 0]

\* The hyperparameter dicts a caller may pass to on_start: the empty dict,
\* dicts of ordinary keys, and dicts whose key is the name of a fixed column.
NoHp == [k \in {} |-> 0]

HpSpace ==
    { NoHp,
      [lr |-> 1],
      [lr |-> 1, units |-> 2],
      [ID |-> 1],
      [Loss |-> 1],
      [Pending |-> FALSE] }

\* The dicts of HpSpace that are non-empty and name no fixed column.
PlainHp == {hp \in HpSpace : hp # NoHp /\ (DOMAIN hp) \cap keys = {}}

\* The loss_summary functions a table may be constructed with: the default
\* (lambda loss_list: loss_list[-1]) and np.min.
Summaries == {"last", "min"}

(* ------------------------------ helpers ------------------------------- *)

RECURSIVE SeqMin(_)
SeqMin(s) ==
    IF Len(s) = 1 THEN s[1]
    ELSE LET m == SeqMin(Tail(s)) IN IF s[1] < m THEN s[1] ELSE m

\* self.loss_summary(loss_list), for a non-empty list.
LossSummary(f, loss_list) ==
    IF f = "last" THEN loss_list[Len(loss_list)] ELSE SeqMin(loss_list)

SetMax(S) == CHOOSE x \in S : \A y \in S : y <= x

Labels(d) == {d[i].label : i \in 1..Len(d)}

Rows(d) == {d[i] : i \in 1..Len(d)}

Range(s) == {s[i] : i \in 1..Len(s)}


(* ------------------------------ the table ----------------------------- *)

\* get_indices(hp=None): [i for i in self.df.index].
get_indices(d) == [i \in 1..Len(d) |-> d[i].label]

\* df.sort_values(by='Loss'): the rows in ascending order of Loss.  pandas
\* argsorts the column with numpy's quicksort, which sorts fewer than 17
\* values by insertion: rows of equal Loss keep the order they had.
RECURSIVE sort_values(_)
sort_values(d) ==
    IF Len(d) <= 1 THEN d
    ELSE LET front == sort_values(SubSeq(d, 1, Len(d) - 1))
             r     == d[Len(d)]
             n     == Cardinality({i \in 1..Len(front) : front[i].Loss <= r.Loss})
         IN  SubSeq(front, 1, n) \o <<r>> \o SubSeq(front, n + 1, Len(front))

\* df.to_csv(path, index=False): every column of every row, in row order,
\* without the index label.
to_csv(d) ==
    [i \in 1..Len(d) |->
        [ID |-> d[i].ID, Loss |-> d[i].Loss, Epochs |-> d[i].Epochs,
         History |-> d[i].History, Pending |-> d[i].Pending, hp |-> d[i].hp]]

\* _save: sort self.df by Loss when it has that column (it has as soon as it
\* has a row), then rewrite the csv.  The new [df, csv].
_save(d) ==
    LET sorted == IF Len(d) = 0 THEN d ELSE sort_values(d)
    IN  [df |-> sorted, csv |-> to_csv(sorted)]

\* new_line with the frame built as pd.DataFrame(new_dict, index=[0]).
new_line_index0(index, loss, epochs, hp, historyfile, pending) ==
    LET new_dict(k, v) == IF k \in DOMAIN hp THEN hp[k] ELSE v
    IN  [label   |-> 0,
         ID      |-> new_dict("ID", index),
         Loss    |-> new_dict("Loss", loss),
         Epochs  |-> new_dict("Epochs", epochs),
         History |-> new_dict("History", historyfile),
         Pending |-> new_dict("Pending", pending),
         hp      |-> [k \in (DOMAIN hp) \ keys |-> hp[k]]]

\* The row pd.DataFrame(new_dict, index=[index]) of _set: new_dict holds the
\* fixed columns and is then updated with hp, so a key of hp that names a
\* fixed column replaces that column's value.
new_line(index, loss, epochs, hp, historyfile, pending) ==
    LET new_dict(k, v) == IF k \in DOMAIN hp THEN hp[k] ELSE v
    IN  [label   |-> index,
         ID      |-> new_dict("ID", index),
         Loss    |-> new_dict("Loss", loss),
         Epochs  |-> new_dict("Epochs", epochs),
         History |-> new_dict("History", historyfile),
         Pending |-> new_dict("Pending", pending),
         hp      |-> [k \in (DOMAIN hp) \ keys |-> hp[k]]]

\* The hyperparameter columns of a frame.
hp_columns(d) == UNION {DOMAIN d[i].hp : i \in 1..Len(d)}

\* df.append(new_line) keeping only the columns both frames have.
append_inner(d, line) ==
    LET cols == IF Len(d) = 0 THEN DOMAIN line.hp
                ELSE hp_columns(d) \cap DOMAIN line.hp
        cut(r) == [r EXCEPT !.hp = [k \in cols |-> r.hp[k]]]
    IN  [i \in 1..(Len(d) + 1) |-> IF i <= Len(d) THEN cut(d[i]) ELSE cut(line)]

\* self.df.append(new_line): the new frame has the columns of both; a row
\* reads NaN in the columns it had no value for.
append(d, line) ==
    LET cols == hp_columns(d) \cup DOMAIN line.hp
        fill(r) == [r EXCEPT !.hp = [k \in cols |->
                                       IF k \in DOMAIN r.hp THEN r.hp[k] ELSE NaN]]
    IN  [i \in 1..(Len(d) + 1) |-> IF i <= Len(d) THEN fill(d[i]) ELSE fill(line)]

\* set_value with the four cells written in every row.
set_value_all(d, index, loss, epochs, historyfile, pending) ==
    [i \in 1..Len(d) |->
        [d[i] EXCEPT !.Loss = loss, !.Epochs = epochs,
                     !.History = historyfile, !.Pending = pending]]

\* The four set_value calls of _set on the row labelled index.
set_value(d, index, loss, epochs, historyfile, pending) ==
    [i \in 1..Len(d) |->
        IF d[i].label = index
        THEN [d[i] EXCEPT !.Loss = loss, !.Epochs = epochs,
                          !.History = historyfile, !.Pending = pending]
        ELSE d[i]]

\* _set with "self.df = new_line" in place of "self.df = self.df.append(new_line)".
_set_replace(t, index, loss, epochs, hp, historyfile, pending) ==
    IF index \in Labels(t.df)
    THEN LET o == _save(set_value(t.df, index, loss, epochs, historyfile, pending))
         IN  [err |-> "none", df |-> o.df, csv |-> o.csv, dtypes |-> t.dtypes]
    ELSE IF hp = NoHp
    THEN [err |-> "AssertionError", df |-> t.df, csv |-> t.csv, dtypes |-> t.dtypes]
    ELSE LET o == _save(<<new_line(index, loss, epochs, hp, historyfile, pending)>>)
         IN  [err |-> "none", df |-> o.df, csv |-> o.csv,
              dtypes |-> t.dtypes \cup DOMAIN hp]

\* _set with the new row appended to the csv file in place of _save's
\* rewrite of the whole file.
_set_append_csv(t, index, loss, epochs, hp, historyfile, pending) ==
    IF index \in Labels(t.df)
    THEN LET o == _save(set_value(t.df, index, loss, epochs, historyfile, pending))
         IN  [err |-> "none", df |-> o.df, csv |-> o.csv, dtypes |-> t.dtypes]
    ELSE IF hp = NoHp
    THEN [err |-> "AssertionError", df |-> t.df, csv |-> t.csv, dtypes |-> t.dtypes]
    ELSE LET line == new_line(index, loss, epochs, hp, historyfile, pending)
             o    == _save(append(t.df, line))
         IN  [err |-> "none", df |-> o.df, csv |-> t.csv \o to_csv(<<line>>),
              dtypes |-> t.dtypes \cup DOMAIN hp]

\* _set on the table t = [df, csv, dtypes]: the outcome [err, df, csv,
\* dtypes].  hp = NoHp stands for both None and {}: "assert hp" rejects
\* either.
_set(t, index, loss, epochs, hp, historyfile, pending) ==
    IF index \in Labels(t.df)
    THEN LET o == _save(set_value(t.df, index, loss, epochs, historyfile, pending))
         IN  [err |-> "none", df |-> o.df, csv |-> o.csv, dtypes |-> t.dtypes]
    ELSE IF hp = NoHp
    THEN [err |-> "AssertionError", df |-> t.df, csv |-> t.csv, dtypes |-> t.dtypes]
    ELSE LET o == _save(append(t.df,
                      new_line(index, loss, epochs, hp, historyfile, pending)))
         IN  [err |-> "none", df |-> o.df, csv |-> o.csv,
              dtypes |-> t.dtypes \cup DOMAIN hp]

\* new_index without the "+ 1".
new_index_max(d) ==
    LET indices == get_indices(d)
    IN  IF Len(indices) = 0 THEN 0
        ELSE SetMax({indices[i] : i \in 1..Len(indices)})

\* The index on_start picks: 0 for an empty table, else max(indices) + 1.
new_index(d) ==
    LET indices == get_indices(d)
    IN  IF Len(indices) = 0 THEN 0
        ELSE SetMax({indices[i] : i \in 1..Len(indices)}) + 1

\* on_start(hp): the outcome [err, df, csv, dtypes, index].
on_start(t, hp) ==
    LET index == new_index(t.df)
    IN  _set(t, index, Inf, 0, hp, None, TRUE) @@ [index |-> index]

\* on_finish with the row marked finished before the history file is read.
on_finish_flag_first(t, f, index, historyfile) ==
    LET history     == ReadHistory(historyfile)
        epochs_seen == Len(history.loss)
        lowest_loss == IF epochs_seen > 0 THEN LossSummary(f, history.loss) ELSE Inf
        flagged     == [i \in 1..Len(t.df) |->
                          IF t.df[i].label = index
                          THEN [t.df[i] EXCEPT !.Pending = FALSE] ELSE t.df[i]]
        fail(e, d)  == [err |-> e, df |-> d, csv |-> t.csv, dtypes |-> t.dtypes]
    IN  IF index \notin Labels(t.df) THEN fail("AssertionError", t.df)
        ELSE IF ~history.ok THEN fail("ValueError", flagged)
        ELSE IF ~history.has_loss THEN fail("AssertionError", flagged)
        ELSE _set(t, index, lowest_loss, epochs_seen, NoHp, historyfile, FALSE)

\* on_finish with the history file read before the index is looked up.
on_finish_read_first(t, f, index, historyfile) ==
    LET history     == ReadHistory(historyfile)
        epochs_seen == Len(history.loss)
        lowest_loss == IF epochs_seen > 0 THEN LossSummary(f, history.loss) ELSE Inf
        fail(e)     == [err |-> e, df |-> t.df, csv |-> t.csv, dtypes |-> t.dtypes]
    IN  IF ~history.ok THEN fail("ValueError")
        ELSE IF index \notin Labels(t.df) THEN fail("AssertionError")
        ELSE IF ~history.has_loss THEN fail("AssertionError")
        ELSE _set(t, index, lowest_loss, epochs_seen, NoHp, historyfile, FALSE)

\* on_finish(index, historyfile) of a table whose loss_summary is f: the
\* outcome [err, df, csv, dtypes].
on_finish(t, f, index, historyfile) ==
    LET history     == ReadHistory(historyfile)
        epochs_seen == Len(history.loss)
        lowest_loss == IF epochs_seen > 0 THEN LossSummary(f, history.loss) ELSE Inf
        fail(e)     == [err |-> e, df |-> t.df, csv |-> t.csv, dtypes |-> t.dtypes]
    IN  IF index \notin Labels(t.df) THEN fail("AssertionError")
        ELSE IF ~history.ok THEN fail("ValueError")
        ELSE IF ~history.has_loss THEN fail("AssertionError")
        ELSE _set(t, index, lowest_loss, epochs_seen, NoHp, historyfile, FALSE)

\* load(historyfile) of a table whose loss_summary is f: on_start with the
\* artifact's hp, then on_finish on the index it returned.  The outcome
\* [err, df, csv, dtypes, index]; the row on_start added stays when on_finish
\* fails.
load(t, f, historyfile) ==
    IF ~ReadHistory(historyfile).ok
    THEN [err |-> "OSError", df |-> t.df, csv |-> t.csv, dtypes |-> t.dtypes,
          index |-> None]
    ELSE LET started == on_start(t, HistoryHp(historyfile))
         IN  IF started.err # "none" THEN started
             ELSE on_finish([df |-> started.df, csv |-> started.csv,
                             dtypes |-> started.dtypes],
                            f, started.index, historyfile)
                  @@ [index |-> started.index]

\* get_k_lowest without the filter on Pending.
get_k_lowest_unfiltered(d, k, ignore_pending) ==
    IF Len(d) = 0
    THEN [err |-> "KeyError", val |-> <<>>]
    ELSE LET data == sort_values(d)
         IN  IF Len(data) < k
             THEN [err |-> "ValueError", val |-> <<>>]
             ELSE [err |-> "none", val |-> SubSeq(data, 1, k)]

\* get_k_lowest(k, ignore_pending): the outcome [err, val].  An empty frame
\* has no column 'Loss', so sort_values raises KeyError before the length
\* check.
get_k_lowest(d, k, ignore_pending) ==
    IF Len(d) = 0
    THEN [err |-> "KeyError", val |-> <<>>]
    ELSE LET sorted == sort_values(d)
             data   == IF ignore_pending
                       THEN SelectSeq(sorted, LAMBDA r : r.Pending = FALSE)
                       ELSE sorted
         IN  IF Len(data) < k
             THEN [err |-> "ValueError", val |-> <<>>]
             ELSE [err |-> "none", val |-> SubSeq(data, 1, k)]

\* get_best(ignore_pending): the fixed columns (self.keys) of the first row
\* of get_k_lowest(k=1).  The outcome [err, val].
get_best(d, ignore_pending) ==
    LET data == get_k_lowest(d, 1, ignore_pending)
    IN  IF data.err = "none"
        THEN [err |-> "none",
              val |-> [ID |-> data.val[1].ID, Loss |-> data.val[1].Loss,
                       Epochs |-> data.val[1].Epochs,
                       History |-> data.val[1].History,
                       Pending |-> data.val[1].Pending]]
        ELSE [err |-> data.err, val |-> <<>>]

\* get_indices(hp) with hp not None: self.df['HP'] raises KeyError unless the
\* frame has a column named HP.  The outcome [err, val].
get_indices_hp(d, hp) ==
    IF "HP" \notin hp_columns(d)
    THEN [err |-> "KeyError", val |-> <<>>]
    ELSE LET data == SelectSeq(d, LAMBDA r : r.hp["HP"] = hp)
         IN  [err |-> "none", val |-> get_indices(data)]

\* update_hist2loss(hist2loss): the attribute is assigned, then the first
\* pass of the loop reads self.df.iloc[index] by position and calls
\* self.update, a method ResultsTable does not have.  The outcome
\* [err, hist2loss].
update_hist2loss(d, f) ==
    [hist2loss |-> f,
     err |-> IF Len(d) = 0 THEN "none"
             ELSE IF d[1].label >= Len(d) THEN "IndexError"
             ELSE "AttributeError"]

\* get_pending: ResultsTable does not override the method of
\* AbstractResultsTable, whose body is "raise NotImplementedError()".
get_pending(d) == [err |-> "NotImplementedError", val |-> {}]

(* ------------------------------ actions ------------------------------- *)

Table == [df |-> df, csv |-> csv, dtypes |-> dtypes]

\* ResultsTable.__init__ without load_results: _create_table makes an empty
\* frame and saves it.
Init ==
    /\ df = <<>>
    /\ csv = <<>>
    /\ dtypes = keys
    /\ loss_summary \in Summaries
    /\ ret = [op |-> "init", arg |-> <<>>, err |-> "none", val |-> <<>>]
    /\ issued = <<>>
    /\ finished = {}
    /\ hist2loss = Unset
    /\ peer = [up |-> FALSE, df |-> <<>>, dtypes |-> keys]
    /\ hfiles = [dir |-> <<>>, pos |-> 0]

OnStart(hp) ==
    /\ Len(df) < MaxTrials
    /\ \E o \in {on_start(Table, hp)} :
           /\ df' = o.df
           /\ csv' = o.csv
           /\ dtypes' = o.dtypes
           /\ ret' = [op |-> "on_start", arg |-> <<hp>>, err |-> o.err,
                      val |-> IF o.err = "none" THEN o.index ELSE None]
           /\ issued' = IF o.err = "none" THEN Append(issued, o.index) ELSE issued
    /\ UNCHANGED <<loss_summary, finished, aux>>

OnFinish(index, historyfile) ==
    /\ \E o \in {on_finish(Table, loss_summary, index, historyfile)} :
           /\ df' = o.df
           /\ csv' = o.csv
           /\ dtypes' = o.dtypes
           /\ ret' = [op |-> "on_finish", arg |-> <<index>>,
                      err |-> o.err, val |-> None]
           /\ finished' = IF o.err = "none" THEN finished \cup {index} ELSE finished
    /\ UNCHANGED <<loss_summary, issued, aux>>

Query(op, arg, o) ==
    /\ ret' = [op |-> op, arg |-> arg] @@ o
    /\ UNCHANGED <<df, csv, dtypes, loss_summary, issued, finished, aux>>

GetKLowest(k, ignore_pending) ==
    Query("get_k_lowest", <<k, ignore_pending>>, get_k_lowest(df, k, ignore_pending))

GetBest(ignore_pending) ==
    Query("get_best", <<ignore_pending>>, get_best(df, ignore_pending))

GetPending ==
    Query("get_pending", <<>>, get_pending(df))

GetIndices ==
    Query("get_indices", <<>>, [err |-> "none", val |-> get_indices(df)])

GetIndicesHp(hp) ==
    Query("get_indices", <<hp>>, get_indices_hp(df, hp))

UpdateHist2Loss(f) ==
    /\ \E o \in {update_hist2loss(df, f)} :
           /\ hist2loss' = o.hist2loss
           /\ ret' = [op |-> "update_hist2loss", arg |-> <<f>>,
                      err |-> o.err, val |-> None]
    /\ UNCHANGED <<df, csv, dtypes, loss_summary, issued, finished, peer, hfiles>>

Next ==
    \/ \E hp \in HpSpace : OnStart(hp)
    \/ \E index \in 0..Len(df), historyfile \in HistoryFiles :
         OnFinish(index, historyfile)
    \/ \E k \in 0..(Len(df) + 1), ignore_pending \in BOOLEAN :
         GetKLowest(k, ignore_pending)
    \/ \E ignore_pending \in BOOLEAN : GetBest(ignore_pending)
    \/ GetPending
    \/ GetIndices
    \/ \E hp \in {[lr |-> 1]} : GetIndicesHp(hp)

Spec == Init /\ [][Next]_vars

\* The ledger with update_hist2loss among its operations.
NextRecompute ==
    \/ Next
    \/ \E f \in Summaries : UpdateHist2Loss(f)

SpecRecompute == Init /\ [][NextRecompute]_vars

\* The same ledger driven only with the hyperparameter dicts of PlainHp.
NextPlain ==
    \/ \E hp \in PlainHp : OnStart(hp)
    \/ \E index \in 0..Len(df), historyfile \in HistoryFiles :
         OnFinish(index, historyfile)
    \/ \E k \in 0..(Len(df) + 1), ignore_pending \in BOOLEAN :
         GetKLowest(k, ignore_pending)
    \/ \E ignore_pending \in BOOLEAN : GetBest(ignore_pending)
    \/ GetPending
    \/ GetIndices
    \/ \E hp \in {[lr |-> 1]} : GetIndicesHp(hp)

SpecPlain == Init /\ [][NextPlain]_vars

\* A second process with its own ResultsTable object on the same csv path.
\* Its constructor runs _create_table, which saves an empty frame over the
\* file; its on_start and on_finish work on its own frame and rewrite the
\* file from it.
PeerTable == [df |-> peer.df, csv |-> csv, dtypes |-> peer.dtypes]

PeerInit ==
    /\ ~peer.up
    /\ peer' = [up |-> TRUE, df |-> <<>>, dtypes |-> keys]
    /\ csv' = _save(<<>>).csv
    /\ ret' = [op |-> "peer.init", arg |-> <<>>, err |-> "none", val |-> None]
    /\ UNCHANGED <<df, dtypes, loss_summary, issued, finished, hist2loss, hfiles>>

PeerOnStart(hp) ==
    /\ peer.up
    /\ Len(peer.df) < MaxTrials
    /\ \E o \in {on_start(PeerTable, hp)} :
           /\ peer' = [up |-> TRUE, df |-> o.df, dtypes |-> o.dtypes]
           /\ csv' = o.csv
           /\ ret' = [op |-> "peer.on_start", arg |-> <<hp>>, err |-> o.err,
                      val |-> IF o.err = "none" THEN o.index ELSE None]
    /\ UNCHANGED <<df, dtypes, loss_summary, issued, finished, hist2loss, hfiles>>

PeerOnFinish(index, historyfile) ==
    /\ peer.up
    /\ \E o \in {on_finish(PeerTable, loss_summary, index, historyfile)} :
           /\ peer' = [up |-> TRUE, df |-> o.df, dtypes |-> o.dtypes]
           /\ csv' = o.csv
           /\ ret' = [op |-> "peer.on_finish", arg |-> <<index>>,
                      err |-> o.err, val |-> None]
    /\ UNCHANGED <<df, dtypes, loss_summary, issued, finished, hist2loss, hfiles>>

\* Two processes on one path, each driven with one hyperparameter dict and
\* with a history file that cannot be read or one that can.
NextTwo ==
    \/ \E hp \in {[lr |-> 1]} : OnStart(hp)
    \/ \E index \in 0..Len(df), historyfile \in {"hGone", "hA"} :
         OnFinish(index, historyfile)
    \/ PeerInit
    \/ \E hp \in {[lr |-> 1]} : PeerOnStart(hp)
    \/ \E index \in 0..Len(peer.df), historyfile \in {"hGone", "hA"} :
         PeerOnFinish(index, historyfile)

SpecTwo == Init /\ [][NextTwo]_vars

\* The directories the constructor may be given as load_results: glob lists
\* each file once, in some order.
Dirs ==
    {d \in UNION {[1..n -> Artifacts] : n \in 0..MaxTrials} :
        \A i, j \in 1..Len(d) : i # j => d[i] # d[j]}

\* ResultsTable.__init__ with load_results, up to the loop over hfiles.
InitLoad ==
    /\ df = <<>>
    /\ csv = <<>>
    /\ dtypes = keys
    /\ loss_summary \in Summaries
    /\ ret = [op |-> "init", arg |-> <<>>, err |-> "none", val |-> <<>>]
    /\ issued = <<>>
    /\ finished = {}
    /\ hist2loss = Unset
    /\ peer = [up |-> FALSE, df |-> <<>>, dtypes |-> keys]
    /\ hfiles \in {[dir |-> d, pos |-> 0] : d \in Dirs}

\* The constructor has left its loop: every file is loaded.
Constructed == hfiles.pos = Len(hfiles.dir)

\* The constructor has left its loop by an exception of load.
LoadFailed == ret.op = "load" /\ ret.err # "none"

\* One pass of "for f in hfiles: self.load(historyfile=f)".  An exception
\* ends the constructor: no later pass runs.
Load ==
    /\ hfiles.pos < Len(hfiles.dir)
    /\ ret.err = "none"
    /\ \E o \in {load(Table, loss_summary, hfiles.dir[hfiles.pos + 1])} :
           /\ df' = o.df
           /\ csv' = o.csv
           /\ dtypes' = o.dtypes
           /\ ret' = [op |-> "load", arg |-> <<hfiles.dir[hfiles.pos + 1]>>,
                      err |-> o.err, val |-> None]
           /\ issued' = IF o.index \in Labels(o.df)
                         THEN Append(issued, o.index) ELSE issued
           /\ finished' = IF o.err = "none"
                           THEN finished \cup {o.index} ELSE finished
           /\ hfiles' = IF o.err = "none"
                         THEN [hfiles EXCEPT !.pos = @ + 1] ELSE hfiles
    /\ UNCHANGED <<loss_summary, hist2loss, peer>>

\* The constructor with load_results, and the queries on the table it made.
NextLoad ==
    \/ Load
    \/ Constructed /\ \E k \in 0..(Len(df) + 1), ignore_pending \in BOOLEAN :
                          GetKLowest(k, ignore_pending)
    \/ Constructed /\ \E ignore_pending \in BOOLEAN : GetBest(ignore_pending)
    \/ Constructed /\ GetIndices

SpecLoad == InitLoad /\ [][NextLoad]_vars

(* ------------------------------- claims ------------------------------- *)

NonPending(d) == {r \in Rows(d) : r.Pending = FALSE}

\* C1: every index returned by on_start is strictly greater than every index
\* returned by an earlier on_start, and the first index returned is 0.
\* issued is the sequence of the indices on_start has returned.
IndexMonotonic ==
    /\ Len(issued) > 0 => issued[1] = 0
    /\ \A i, j \in 1..Len(issued) : i < j => issued[i] < issued[j]

\* Two indices were returned with a successful on_finish in between or after.
IndexMonotonicWitness ==
    /\ Len(issued) = 2
    /\ finished # {}

\* C2: no two rows of the table carry the same index; every successful
\* on_start has added exactly one row under the index it returned and
\* on_finish has added none.
NoSharedIndex ==
    /\ \A i, j \in 1..Len(df) : i # j => df[i].label # df[j].label
    /\ Len(df) = Len(issued)
    /\ Labels(df) = Range(issued)

\* Two rows exist and an on_finish on one of them has just succeeded.
NoSharedIndexWitness ==
    /\ Len(df) = 2
    /\ ret.op = "on_finish"
    /\ ret.err = "none"

\* C3: pending() returns exactly the indices that were started and have had
\* no successful on_finish.
PendingIsStartedNotFinished ==
    ret.op = "get_pending" =>
        /\ ret.err = "none"
        /\ ret.val = Range(issued) \ finished

\* C4: an on_finish that fails changes neither the table nor the csv.
FailedFinishNoMutation ==
    [][ (ret'.op = "on_finish" /\ ret'.err # "none") =>
            (df' = df /\ csv' = csv /\ dtypes' = dtypes) ]_vars

\* on_finish has just failed on an unreadable history file for a row that is
\* pending, while another row is finished.
FailedFinishWitness ==
    /\ ret.op = "on_finish"
    /\ ret.err = "ValueError"
    /\ \E r \in Rows(df) : r.label = ret.arg[1] /\ r.Pending = TRUE /\ r.Loss = Inf
    /\ \E r \in Rows(df) : r.label # ret.arg[1] /\ r.Pending = FALSE

\* C5: the (index, loss, epochs, pending) tuples of the csv are those of the
\* table in memory.
WriteThrough ==
    {<<r.label, r.Loss, r.Epochs, r.Pending>> : r \in Rows(df)}
        = {<<c.ID, c.Loss, c.Epochs, c.Pending>> : c \in Rows(csv)}

\* C6: a record returned by get_best(ignore_pending=True) is a non-pending
\* row of the table whose loss is at most that of every non-pending row.
BestIsLowestFinished ==
    (ret.op = "get_best" /\ ret.arg = <<TRUE>> /\ ret.err = "none") =>
        /\ ret.val.Pending = FALSE
        /\ \E r \in NonPending(df) :
             /\ r.ID = ret.val.ID /\ r.Loss = ret.val.Loss
             /\ r.Epochs = ret.val.Epochs /\ r.History = ret.val.History
        /\ \A r \in NonPending(df) : ret.val.Loss <= r.Loss

\* get_best has returned the better of two finished trials, which is not the
\* first one started.
BestIsLowestFinishedWitness ==
    /\ ret.op = "get_best" /\ ret.arg = <<TRUE>> /\ ret.err = "none"
    /\ ret.val.ID = 1
    /\ ret.val.Loss = 1
    /\ \E r \in NonPending(df) : r.label = 0 /\ r.Loss = 2

\* C7: rows of equal loss come out of get_k_lowest by ascending index, and
\* get_best returns the lowest index among the rows of lowest loss.
TieBreakByIndex ==
    /\ (ret.op = "get_k_lowest" /\ ret.err = "none") =>
          \A i, j \in 1..Len(ret.val) :
              (i < j /\ ret.val[i].Loss = ret.val[j].Loss) =>
                  ret.val[i].label < ret.val[j].label
    /\ (ret.op = "get_best" /\ ret.err = "none") =>
          \A r \in (IF ret.arg[1] THEN NonPending(df) ELSE Rows(df)) :
              r.Loss = ret.val.Loss => ret.val.ID <= r.label

\* C8: get_k_lowest(k, ignore_pending=True) fails with ValueError (the
\* InsufficientResults of line 219) when k exceeds the number of non-pending
\* rows and otherwise returns exactly k rows.
KLowestOutcome ==
    (ret.op = "get_k_lowest" /\ ret.arg[2] = TRUE) =>
        IF ret.arg[1] > Cardinality(NonPending(df))
        THEN ret.err = "ValueError"
        ELSE ret.err = "none" /\ Len(ret.val) = ret.arg[1]

\* C9: a row with Epochs = 0 has Loss = inf; a row with Epochs > 0 has
\* Epochs = the length of its history's loss list and Loss = its summary.
LossSentinel ==
    \A r \in Rows(df) :
        /\ r.Epochs = 0 => r.Loss = Inf
        /\ r.Epochs > 0 =>
              /\ r.History \in HistoryFiles
              /\ r.Epochs = Len(ReadHistory(r.History).loss)
              /\ r.Loss = LossSummary(loss_summary, ReadHistory(r.History).loss)

\* C10: on_start never fails, and the row it inserts under the returned
\* index is pending with loss inf.
OnStartAlwaysInserts ==
    ret.op = "on_start" =>
        /\ ret.err = "none"
        /\ \E r \in Rows(df) :
             r.label = ret.val /\ r.Pending = TRUE /\ r.Loss = Inf

\* C11: on_finish on an index no on_start returned fails with the
\* AssertionError of line 44 whatever the history file (an unreadable file
\* would give ValueError were it opened first), and leaves the table, the
\* csv and the set of indices as they were.
UnknownIndexRejected ==
    [][ (ret'.op = "on_finish" /\ ret'.arg[1] \notin Range(issued)) =>
            /\ ret'.err = "AssertionError"
            /\ df' = df /\ csv' = csv /\ dtypes' = dtypes
            /\ ret'.arg[1] \notin Labels(df') ]_vars

\* on_finish has just been refused for an index that was never returned, on
\* a table that holds a pending and a finished row.
UnknownIndexWitness ==
    /\ ret.op = "on_finish"
    /\ ret.err = "AssertionError"
    /\ ret.arg[1] \notin Range(issued)
    /\ \E r \in Rows(df) : r.Pending = TRUE
    /\ \E r \in Rows(df) : r.Pending = FALSE /\ r.History # None

\* The records of a frame: its rows without the NaN cells.
Records(d) ==
    { [r EXCEPT !.hp = [k \in {c \in DOMAIN r.hp : r.hp[c] # NaN} |-> r.hp[k]]] :
        r \in Rows(d) }

QueryOps == {"get_indices", "get_pending", "get_k_lowest", "get_best"}

\* C12: the set of indices never shrinks; only on_start adds an index; only
\* on_finish or update_hist2loss changes a record that exists; the queries
\* change no record.
Lifecycle ==
    [][ \/ df' = df /\ csv' = csv
        \/ /\ ret'.op \notin QueryOps
           /\ Labels(df) \subseteq Labels(df')
           /\ Labels(df') # Labels(df) => ret'.op = "on_start"
           /\ ~(Records(df) \subseteq Records(df')) =>
                  ret'.op \in {"on_finish", "update_hist2loss"} ]_vars

\* get_k_lowest has just returned both rows of a table in which the trial
\* started second comes first.
LifecycleWitness ==
    /\ ret.op = "get_k_lowest" /\ ret.err = "none"
    /\ Len(ret.val) = 2
    /\ Len(df) = 2 /\ df[1].label = 1
    /\ finished = {1}

\* A row of the frame d that is the row r with, at most, more columns: same
\* index, same fixed columns, same value in every column r had, NaN in every
\* column r had not.
KeptIn(r, d) ==
    \E q \in Rows(d) :
        /\ q.label = r.label /\ q.ID = r.ID /\ q.Loss = r.Loss
        /\ q.Epochs = r.Epochs /\ q.History = r.History /\ q.Pending = r.Pending
        /\ DOMAIN r.hp \subseteq DOMAIN q.hp
        /\ \A k \in DOMAIN q.hp :
             q.hp[k] = IF k \in DOMAIN r.hp THEN r.hp[k] ELSE NaN

\* C13: the registered columns (self.dtypes and the columns of the frame)
\* only grow; a successful on_start(hp) registers every key of hp, keeps
\* every row that existed with its index, fixed columns and hyperparameter
\* values, and gives it NaN in the columns that are new.
SchemaGrowth ==
    [][ \/ df' = df /\ dtypes' = dtypes
        \/ /\ dtypes \subseteq dtypes'
           /\ hp_columns(df) \subseteq hp_columns(df')
           /\ (ret'.op = "on_start" /\ ret'.err = "none") =>
                 /\ DOMAIN ret'.arg[1] \subseteq dtypes'
                 /\ (DOMAIN ret'.arg[1]) \ keys \subseteq hp_columns(df')
                 /\ \A r \in Rows(df) : KeptIn(r, df') ]_vars

\* on_start has just added a row with the new column units to a table whose
\* other row had only lr: that row keeps lr and reads NaN in units.
SchemaGrowthWitness ==
    /\ ret.op = "on_start" /\ ret.err = "none"
    /\ ret.arg[1] = [lr |-> 1, units |-> 2]
    /\ "units" \in dtypes
    /\ \E r \in Rows(df) :
         /\ r.label # ret.val
         /\ DOMAIN r.hp = {"lr", "units"}
         /\ r.hp["lr"] = 1 /\ r.hp["units"] = NaN

\* C14: update_hist2loss(f) completes; afterwards f is the summary function
\* on_finish uses and every row with a history file has Epochs = the length
\* of its loss list and Loss = f of that list (inf when the list is empty).
RecomputeRecomputes ==
    ret.op = "update_hist2loss" =>
        /\ ret.err = "none"
        /\ loss_summary = ret.arg[1]
        /\ \A r \in Rows(df) :
             r.History \in HistoryFiles =>
                 LET loss_list == ReadHistory(r.History).loss
                 IN  /\ r.Epochs = Len(loss_list)
                     /\ r.Loss = IF Len(loss_list) > 0
                                 THEN LossSummary(ret.arg[1], loss_list) ELSE Inf

\* C15: with two processes on one csv path every write is a rewrite of the
\* whole file from the writer's own frame: the file is always the table of
\* one of the two and holds nothing of the other's that the writer has not.
\* So an update the other process completed can be missing from the file
\* (LostUpdate is such a state).
FullOverwrite ==
    \/ csv = to_csv(df)
    \/ peer.up /\ csv = to_csv(peer.df)

\* The first process has finished a trial, and the file, last written by the
\* second process's on_start, lists only pending trials.
LostUpdate ==
    /\ ret.op = "peer.on_start" /\ ret.err = "none"
    /\ \E r \in Rows(df) : r.Pending = FALSE /\ r.label \in finished
    /\ Len(csv) > 0
    /\ \A c \in Rows(csv) : c.Pending = TRUE
    /\ csv # to_csv(df)

\* C16: when the constructor with load_results has ended, it has not failed,
\* the table has one row per artifact of the directory under the indices
\* 0..n-1, no row is pending, and the row of the i-th artifact carries that
\* artifact's hyperparameters, its number of readings as Epochs and their
\* summary as Loss (so two tables loaded from one directory agree).
BulkImport ==
    (Constructed \/ LoadFailed) =>
        /\ ~LoadFailed
        /\ Len(df) = Len(hfiles.dir)
        /\ Labels(df) = 0..(Len(hfiles.dir) - 1)
        /\ \A r \in Rows(df) : r.Pending = FALSE
        /\ \A i \in 1..Len(hfiles.dir) :
             LET loss_list == ReadHistory(hfiles.dir[i]).loss
                 hp        == HistoryHp(hfiles.dir[i])
             IN  \E r \in Rows(df) :
                   /\ r.label = i - 1
                   /\ r.History = hfiles.dir[i]
                   /\ r.Epochs = Len(loss_list)
                   /\ r.Loss = IF Len(loss_list) > 0
                               THEN LossSummary(loss_summary, loss_list) ELSE Inf
                   /\ \A k \in (DOMAIN hp) \ keys : r.hp[k] = hp[k]

\* C17: get_indices() returns the indices of all rows, and get_indices(hp)
\* returns, without failing, the indices of the rows whose hyperparameters
\* are hp.
IndicesQuery ==
    ret.op = "get_indices" =>
        /\ ret.err = "none"
        /\ Range(ret.val) =
             IF ret.arg = <<>> THEN Labels(df)
             ELSE {r.label : r \in {q \in Records(df) : q.hp = ret.arg[1]}}

\* C18: a pending row has Loss = inf, Epochs = 0 and History = None; a row
\* that is not pending has a history file.
PendingShape ==
    \A r \in Rows(df) :
        /\ r.Pending = TRUE =>
              (r.Loss = Inf /\ r.Epochs = 0 /\ r.History = None)
        /\ r.Pending = FALSE => r.History # None

\* C19: on_finish(i, historyfile) leaves the set of indices, every row other
\* than row i, and the index, ID and hyperparameter columns of row i as they
\* were: it changes at most Loss, Epochs, History and Pending of row i.
FinishFrame ==
    [][ ret'.op = "on_finish" =>
          /\ Labels(df') = Labels(df)
          /\ Len(df') = Len(df)
          /\ \A r \in Rows(df) :
               IF r.label = ret'.arg[1]
               THEN \E q \in Rows(df') :
                      q.label = r.label /\ q.ID = r.ID /\ q.hp = r.hp
               ELSE r \in Rows(df') ]_vars

\* on_finish has just succeeded on the trial started second, which now comes
\* first in the table, before the trial started first, still pending.
FinishFrameWitness ==
    /\ ret.op = "on_finish" /\ ret.err = "none" /\ ret.arg = <<1>>
    /\ Len(df) = 2
    /\ df[1].label = 1 /\ df[1].Pending = FALSE /\ df[1].Epochs = 2
    /\ df[2].label = 0 /\ df[2].Pending = TRUE /\ df[2].Loss = Inf

\* C20: a row that is not pending is not pending after any step, and a row
\* that has had no successful on_finish is pending.
PendingMonotone ==
    [][ /\ \A r \in Rows(df) :
             r.Pending = FALSE =>
                 \E q \in Rows(df') : q.label = r.label /\ q.Pending = FALSE
        /\ \A q \in Rows(df') :
             q.label \notin finished' => q.Pending = TRUE ]_vars

=============================================================================
